---- MODULE Spec2Model ----
(***************************************************************************)
(* A model of recurrent-js' two model families: the feed-forward DNN       *)
(* (src/src/fnn/fnn-model.ts, src/src/fnn/dnn.ts) and the recurrent RNN    *)
(* (src/src/rnn/rnn.ts, src/unnamed/part_000 = rnn-model.ts), over the     *)
(* Mat / Graph engine they import (../mat, ../graph, ../utils/assertable,  *)
(* which are not among the source files and are modelled from the spec).   *)
(*                                                                         *)
(* Numbers are integers.  tanh is rounded to the nearest integer, as the   *)
(* floating-point tanh rounds to the nearest double: tanh(0) = 0 and       *)
(* tanh(x) = sign(x) for |x| >= 1.  The hyper-parameters are given as      *)
(* numbers in the options (the non-integral defaults 0.01 and 1e-6 of      *)
(* determineTrainingProperties are outside the integer domain).            *)
(* RNN.forward is called without its `graph` argument, so it records on    *)
(* the instance's own graph.                                               *)
(***************************************************************************)
EXTENDS Integers, Sequences, FiniteSets, TLC

\* ---------------------------------------------------------------- bounds
\* Largest absolute value a parameter may take after a weight update.
MaxVal == 1
\* Largest number of forward passes whose closures the graph may hold.
MaxPasses == 2

\* ------------------------------------------------------------------- Mat
\* A Mat: n rows, d columns, values w and gradient dw (flat, row-major).
Zeros(len) == [i \in 1..len |-> 0]

NewMat(n, d) == [n |-> n, d |-> d, w |-> Zeros(n * d), dw |-> Zeros(n * d)]

MatOf(n, d, vals) == [n |-> n, d |-> d, w |-> vals, dw |-> Zeros(n * d)]

\* Mat.fromJSON: a Mat of the JSON's shape holding the JSON's values.
MatFromJSON(j) == MatOf(j.rows, j.cols, j.w)

\* Mat.update(alpha): w[i] -= alpha * dw[i]; dw[i] = 0.
MatUpdate(m, alpha) ==
  [m EXCEPT !.w = [i \in 1..Len(m.w) |-> m.w[i] - alpha * m.dw[i]],
            !.dw = Zeros(Len(m.dw))]

RECURSIVE SumTo(_, _)
SumTo(f, k) == IF k = 0 THEN 0 ELSE f[k] + SumTo(f, k - 1)

Abs(x) == IF x < 0 THEN -x ELSE x

\* Math.tanh on the integer grid, rounded to nearest.
Tanh(x) == IF x > 0 THEN 1 ELSE IF x < 0 THEN -1 ELSE 0

\* ----------------------------------------------------------------- Graph
\* A reference to a Mat object: a parameter of the model (k names the field
\* of `model`, i the layer) or a transient Mat (k = "T", i its place in the
\* heap of Mats reachable from the recorded closures).
Ref(k, i) == [k |-> k, i |-> i]

NoRef == Ref("none", 0)

\* The Mat a reference points to.  g = [model, temps, stack, rec].
Deref(g, r) ==
  IF r.k = "T" THEN g.temps[r.i]
  ELSE IF r.k = "dWh" THEN g.model.decoder.Wh
  ELSE IF r.k = "db" THEN g.model.decoder.b
  ELSE g.model.hidden[r.k][r.i]

Store(g, r, m) ==
  IF r.k = "T" THEN [g EXCEPT !.temps[r.i] = m]
  ELSE IF r.k = "dWh" THEN [g EXCEPT !.model.decoder.Wh = m]
  ELSE IF r.k = "db" THEN [g EXCEPT !.model.decoder.b = m]
  ELSE [g EXCEPT !.model.hidden[r.k][r.i] = m]

\* Forward value of a primitive.
OpValue(op, A, B) ==
  IF op = "add" THEN MatOf(A.n, A.d, [i \in 1..Len(A.w) |-> A.w[i] + B.w[i]])
  ELSE IF op = "mul" THEN
    MatOf(A.n, 1, [i \in 1..A.n |->
                     SumTo([k \in 1..A.d |-> A.w[(i - 1) * A.d + k] * B.w[k]], A.d)])
  ELSE IF op = "relu" THEN
    MatOf(A.n, A.d, [i \in 1..Len(A.w) |-> IF A.w[i] > 0 THEN A.w[i] ELSE 0])
  ELSE MatOf(A.n, A.d, [i \in 1..Len(A.w) |-> Tanh(A.w[i])])

\* A primitive of the graph: allocates the output Mat and, when the graph is
\* memorizing, pushes the backward closure.  The output is the last Mat of
\* the resulting heap.
GraphOp(g, op, a, b) ==
  LET out == OpValue(op, Deref(g, a), IF b = NoRef THEN Deref(g, a) ELSE Deref(g, b))
      idx == Len(g.temps) + 1
  IN [g EXCEPT !.temps = Append(@, out),
               !.stack = IF g.rec
                         THEN Append(@, [op |-> op, a |-> a, b |-> b, out |-> Ref("T", idx)])
                         ELSE @]

LastOut(g) == Ref("T", Len(g.temps))

\* A primitive applied to the output of the primitive before it.
OnLast(g, op, b) == GraphOp(g, op, LastOut(g), b)

\* add applied to the outputs of the two primitives before it.
AddLastTwo(g) == GraphOp(g, "add", Ref("T", Len(g.temps) - 1), LastOut(g))

\* The backward closure of one recorded primitive: accumulates into the
\* inputs' gradients from the output's gradient.
AddGrad(m, delta) == [m EXCEPT !.dw = [i \in 1..Len(m.dw) |-> m.dw[i] + delta[i]]]

RunClosure(g, c) ==
  LET O == Deref(g, c.out)
      A == Deref(g, c.a)
  IN IF c.op = "add" THEN
       LET g1 == Store(g, c.a, AddGrad(A, O.dw))
       IN Store(g1, c.b, AddGrad(Deref(g1, c.b), O.dw))
     ELSE IF c.op = "mul" THEN
       LET B == Deref(g, c.b)
           g1 == Store(g, c.a,
                   AddGrad(A, [x \in 1..Len(A.w) |->
                      O.dw[((x - 1) \div A.d) + 1] * B.w[((x - 1) % A.d) + 1]]))
       IN Store(g1, c.b,
            AddGrad(Deref(g1, c.b), [k \in 1..A.d |->
               SumTo([i \in 1..A.n |-> A.w[(i - 1) * A.d + k] * O.dw[i]], A.n)]))
     ELSE IF c.op = "relu" THEN
       Store(g, c.a, AddGrad(A, [i \in 1..Len(A.w) |-> IF A.w[i] > 0 THEN O.dw[i] ELSE 0]))
     ELSE
       Store(g, c.a, AddGrad(A, [i \in 1..Len(A.w) |-> O.dw[i] * (1 - O.w[i] * O.w[i])]))

\* Graph.backward: pops and runs every recorded closure, last recorded first.
RECURSIVE GraphBackward(_)
GraphBackward(g) ==
  IF g.stack = <<>> THEN g
  ELSE LET c == g.stack[Len(g.stack)]
       IN GraphBackward(RunClosure([g EXCEPT !.stack = SubSeq(@, 1, Len(@) - 1)], c))

\* Graph.forgetCurrentSequence: empties the stack; the transient Mats only
\* the closures referred to are garbage.
ForgetCurrentSequence(g) == [g EXCEPT !.stack = <<>>, !.temps = <<>>]

\* Graph.memorizeOperationSequence(isMemorizing).
MemorizeOperationSequence(g, isMemorizing) == [g EXCEPT !.rec = isMemorizing]


\* ------------------------------------------------------------ the state
VARIABLES
  kind,            \* the class of the constructed instance: "none", "DNN", "RNN"
  architecture,    \* this.architecture
  training,        \* this.training
  model,           \* this.model: the parameter Mats
  graph,           \* this.graph: [rec: needsBackpropagation, stack: closures]
  temps,           \* the transient Mats the recorded closures refer to
  previousOutput,  \* FNNModel.previousOutput: [def, at, mat]
  returned,        \* the InnerState the last RNN.forward returned to the caller
  noForwardSince,  \* history: no forward pass ran since setTrainability returned
  afterLoss,       \* history: "discarded" when the last call was a loss evaluation
                   \* right after a recorded forward pass, "backward" when the
                   \* last call was the backward right after that, else "no"
  last             \* history: the last call, its input and its outcome

vars == <<kind, architecture, training, model, graph, temps, previousOutput,
          returned, noForwardSince, afterLoss, last>>

\* The engine's view of the instance: the Mats and the graph together.
View(m, t, gr) == [model |-> m, temps |-> t, stack |-> gr.stack, rec |-> gr.rec]

G == View(model, temps, graph)

\* The Graph object of an engine view.
GraphOf(g) == [rec |-> g.rec, stack |-> g.stack]

NullMat == NewMat(0, 0)

\* this.model before any initialisation.
NoModel ==
  [hidden |-> [Wh |-> <<>>, bh |-> <<>>], decoder |-> [Wh |-> NullMat, b |-> NullMat]]

\* new Graph(): not memorizing, nothing recorded.
NewGraph == [rec |-> FALSE, stack |-> <<>>]


\* previousOutput is undefined (def = FALSE), or it is the Mat temps[at] the
\* last recorded closure wrote (at > 0), or a Mat no closure refers to (mat).
Undefined == [def |-> FALSE, at |-> 0, mat |-> NullMat]

Detached(m) == [def |-> TRUE, at |-> 0, mat |-> m]

OnTape(i) == [def |-> TRUE, at |-> i, mat |-> NullMat]

PrevMat(g, p) == IF p.at > 0 THEN g.temps[p.at] ELSE p.mat

\* What is left of a held Mat once the closures are forgotten.
Detach(g, p) == IF p.def /\ p.at > 0 THEN Detached(g.temps[p.at]) ELSE p

\* The InnerState the caller holds: the places of its Mats on the heap.
NoState == [def |-> FALSE, hidden |-> <<>>, output |-> 0]

Call(op, err, in) == [op |-> op, err |-> err, in |-> in]

\* ------------------------------------------------------------ the inputs
\* Values a RandMat draws (the model's sample of the random initialisation).
InitWeights == {-1, 1}

\* Random numbers one construction consumes at most.
RandLen == 5

\* The arrays handed to FNNModel.forward and getSquaredLossFor.
Inputs == {<<1>>}

\* The values of the input Mats handed to RNN.forward.
InputMats == {<<0>>, <<1>>}

\* Targets of length outputSize.
Targets(n) == [1..n -> {-2, 0, 1}]

\* The inputs handed to getSquaredLossFor: the input of the training passes
\* and one that differs from it.
LossInputs == {<<0>>, <<1>>}

\* The target of a loss evaluation (it only enters the returned number).
LossTargets(n) == {[i \in 1..n |-> 0]}

\* `alpha` of backward / update: 0 stands for an omitted (falsy) argument.
Alphas == {0, 1}

\* The options of a construction.  `has` names the fields of opt.architecture
\* and opt.training that are given (as numbers / an array); alpha and loss
\* are always given.
Opt(archHas, inputSize, hiddenUnits, outputSize, trainHas, alpha, lossClamp, loss) ==
  [architecture |-> [has |-> archHas, inputSize |-> inputSize,
                     hiddenUnits |-> hiddenUnits, outputSize |-> outputSize],
   training |-> [has |-> trainHas, alpha |-> alpha, lossClamp |-> lossClamp,
                 loss |-> loss]]

AllArch == {"inputSize", "hiddenUnits", "outputSize"}

NetOpts ==
  { Opt({}, 0, <<>>, 0, {"alpha", "loss"}, 1, 0, 0),
    Opt(AllArch, 1, <<1>>, 2, {"alpha", "lossClamp", "loss"}, 1, 2, 1),
    Opt(AllArch, 1, <<1, 1>>, 1, {"alpha", "lossClamp", "loss"}, 2, 1, 0) }

\* --------------------------------------------------- FNNModel construction
DetermineArchitectureProperties(opt) ==
  [inputSize |-> IF "inputSize" \in opt.architecture.has
                 THEN opt.architecture.inputSize ELSE 1,
   hiddenUnits |-> IF "hiddenUnits" \in opt.architecture.has
                   THEN opt.architecture.hiddenUnits ELSE <<1>>,
   outputSize |-> IF "outputSize" \in opt.architecture.has
                  THEN opt.architecture.outputSize ELSE 1]

DetermineTrainingProperties(opt) ==
  [alpha |-> opt.training.alpha,
   lossClamp |-> IF "lossClamp" \in opt.training.has THEN opt.training.lossClamp ELSE 1,
   loss |-> opt.training.loss]

GetPrecedingLayerSize(arch, i) ==
  IF i = 1 THEN arch.inputSize ELSE arch.hiddenUnits[i - 1]

\* The place in the random stream r after which hidden layer i draws, each
\* layer before it having drawn per[j] numbers.
Offset(per, i) == SumTo(per, i - 1)

\* new RandMat(n, d, mu, std): values drawn at random, gradient zero.
RandMat(n, d, r, off) == MatOf(n, d, [i \in 1..(n * d) |-> r[off + i]])

\* initializeHiddenLayer of FNNModel.
FNNInitializeHiddenLayer(arch, r) ==
  LET per == [i \in 1..Len(arch.hiddenUnits) |->
                arch.hiddenUnits[i] * GetPrecedingLayerSize(arch, i)]
  IN [Wh |-> [i \in 1..Len(arch.hiddenUnits) |->
                RandMat(arch.hiddenUnits[i], GetPrecedingLayerSize(arch, i), r,
                        Offset(per, i))],
      bh |-> [i \in 1..Len(arch.hiddenUnits) |-> NewMat(arch.hiddenUnits[i], 1)]]

\* initializeDecoder (the same in FNNModel and RNNModel).
InitializeDecoder(arch, r, off) ==
  [Wh |-> RandMat(arch.outputSize, arch.hiddenUnits[Len(arch.hiddenUnits)], r, off),
   b |-> NewMat(arch.outputSize, 1)]


\* The serialized weights handed to DNN.fromJSON.  A MatJson is
\* [rows, cols, w]; `has` names the fields the object has, hwIsArray tells
\* whether json.h.w is an array.
MatJson(n, d, v) == [rows |-> n, cols |-> d, w |-> [i \in 1..(n * d) |-> v]]

FNNJson(has, hwIsArray, layers, outputSize) ==
  [has |-> has, hwIsArray |-> hwIsArray,
   hw |-> [i \in 1..layers |-> MatJson(1, 1, 1)],
   hb |-> [i \in 1..layers |-> MatJson(1, 1, 0)],
   dw |-> MatJson(outputSize, 1, -1),
   db |-> MatJson(outputSize, 1, 0)]

AllFields == {"h", "d", "h.w", "h.b", "d.w", "d.b"}

\* For an architecture: the JSON of its own shape, one with a hidden layer
\* more, one with no hidden layer, ones lacking a field, and one whose h.w
\* is not an array.
FNNJsons(arch) ==
  LET L == Len(arch.hiddenUnits)
      o == arch.outputSize
  IN { FNNJson(AllFields, TRUE, L, o),
       FNNJson(AllFields, TRUE, L + 1, o),
       FNNJson(AllFields, TRUE, 0, o),
       FNNJson(AllFields \ {"h.b"}, TRUE, L, o),
       FNNJson(AllFields \ {"d", "d.w", "d.b"}, TRUE, L, o),
       FNNJson(AllFields, FALSE, L, o) }

\* initializeHiddenLayerFromJSON and initializeModelFromJSONObject of
\* FNNModel: the error the construction throws ("ok" when it throws none).
\* Assertable.assert throws an Error with the message; reading a field of
\* undefined throws a TypeError.
FNNFromJSONError(json) ==
  IF "h" \notin json.has THEN "TypeError"
  ELSE IF ~json.hwIsArray THEN "Wrong JSON Format to recreate Hidden Layer."
  ELSE IF Len(json.hw) > 0 /\ "h.b" \notin json.has THEN "TypeError"
  ELSE IF "d" \notin json.has THEN "TypeError"
  ELSE "ok"

\* The model the JSON path populates: every layer of the JSON, whatever the
\* architecture declares.
FNNModelFromJSON(json) ==
  [hidden |-> [Wh |-> [i \in 1..Len(json.hw) |-> MatFromJSON(json.hw[i])],
               bh |-> [i \in 1..Len(json.hw) |-> MatFromJSON(json.hb[i])]],
   decoder |-> [Wh |-> MatFromJSON(json.dw), b |-> MatFromJSON(json.db)]]

\* new DNN(opt): initializeModelAsFreshInstance.
NewDNN(opt, r) ==
  LET arch == DetermineArchitectureProperties(opt)
      hidden == FNNInitializeHiddenLayer(arch, r)
  IN /\ kind = "none"
     /\ kind' = "DNN"
     /\ architecture' = arch
     /\ training' = DetermineTrainingProperties(opt)
     /\ model' = [hidden |-> hidden,
                  decoder |-> InitializeDecoder(arch, r,
                     SumTo([i \in 1..Len(arch.hiddenUnits) |-> Len(hidden.Wh[i].w)],
                           Len(arch.hiddenUnits)))]
     /\ graph' = NewGraph
     /\ temps' = <<>>
     /\ previousOutput' = Undefined
     /\ last' = Call("new DNN", "ok", opt)
     /\ UNCHANGED <<returned, noForwardSince, afterLoss>>

\* DNN.fromJSON(opt, json) = new DNN(opt, json).
DNNFromJSON(opt, json) ==
  LET err == FNNFromJSONError(json)
  IN /\ kind = "none"
     /\ last' = Call("DNN.fromJSON", err, [opt |-> opt, json |-> json])
     /\ IF err = "ok"
        THEN /\ kind' = "DNN"
             /\ architecture' = DetermineArchitectureProperties(opt)
             /\ training' = DetermineTrainingProperties(opt)
             /\ model' = FNNModelFromJSON(json)
             /\ graph' = NewGraph
             /\ temps' = <<>>
             /\ previousOutput' = Undefined
             /\ UNCHANGED <<returned, noForwardSince, afterLoss>>
        ELSE UNCHANGED <<kind, architecture, training, model, graph, temps,
                         previousOutput, returned, noForwardSince, afterLoss>>


\* ------------------------------------------------------ FNNModel / DNN calls
\* The number of forward passes whose closures are on the stack (each pass
\* records one multiplication by the decoder's weights).
PassesOnTape == Cardinality({i \in 1..Len(graph.stack) : graph.stack[i].a = Ref("dWh", 0)})

\* One layer of DNN.computeHiddenActivations: tanh(Wh[d] * inputVector + bh[d]).
DNNLayer(g, d, inputVector) ==
  OnLast(OnLast(GraphOp(g, "mul", Ref("Wh", d), inputVector), "add", Ref("bh", d)),
         "tanh", NoRef)

\* DNN.computeHiddenActivations, layers d.. .
RECURSIVE DNNHiddenActivations(_, _, _, _)
\* hiddenActivations.push(activation), and the next layer on that activation.
DNNPushActivation(g, arch, d) == DNNHiddenActivations(g, arch, d + 1, LastOut(g))

DNNHiddenActivations(g, arch, d, inputVector) ==
  IF d > Len(arch.hiddenUnits) THEN g
  ELSE DNNPushActivation(DNNLayer(g, d, inputVector), arch, d)

\* computeOutput (the same in FNNModel and RNNModel): decoder.Wh * last + b.
ComputeOutput(g, lastActivation) ==
  OnLast(GraphOp(g, "mul", Ref("dWh", 0), lastActivation), "add", Ref("db", 0))

\* A hidden layer the architecture declares is undefined in the model: the
\* first primitive on it throws a TypeError before anything is recorded.
LayerMissing(g, arch) == Len(g.model.hidden.Wh) < Len(arch.hiddenUnits)

\* transformArrayToMat: the input Mat, put on the heap.
TransformArrayToMat(g, arch, input) ==
  [g EXCEPT !.temps = Append(@, MatOf(arch.inputSize, 1, input))]

\* DNN.specificForwardpass on the Mat transformArrayToMat made.
SpecificForwardpass(g, arch) == DNNHiddenActivations(g, arch, 1, LastOut(g))

\* computeOutput on the last of the hidden activations.
OutputOfLast(g) == ComputeOutput(g, LastOut(g))

\* FNNModel.forward on the engine view g: transformArrayToMat, the hidden
\* activations, the output.  The output Mat is the last of the heap.
FNNForwardPass(g, arch, input) ==
  OutputOfLast(SpecificForwardpass(TransformArrayToMat(g, arch, input), arch))

\* previousOutput after a forward pass on g that ended in g2: the output is
\* kept on the heap when a closure refers to it.
RetainOutput(g2) ==
  IF g2.rec THEN OnTape(Len(g2.temps)) ELSE Detached(g2.temps[Len(g2.temps)])

\* The heap after a pass: without recording no closure refers to the new Mats.
HeapAfter(g, g2) == IF g2.rec THEN g2.temps ELSE g.temps

\* The instance after a forward pass on g that ended in g2.
ForwardReturn(g, g2) ==
  /\ graph' = GraphOf(g2)
  /\ temps' = HeapAfter(g, g2)
  /\ previousOutput' = RetainOutput(g2)

\* FNNModel.forward(input).
Forward(input) ==
  /\ kind = "DNN"
  /\ graph.rec => PassesOnTape < MaxPasses
  /\ IF LayerMissing(G, architecture)
     THEN /\ last' = Call("forward", "TypeError", input)
          /\ UNCHANGED <<graph, temps, previousOutput, noForwardSince>>
     ELSE /\ ForwardReturn(G, FNNForwardPass(G, architecture, input))
          /\ noForwardSince' = FALSE
          /\ last' = Call("forward", "ok", input)
  /\ afterLoss' = "no"
  /\ UNCHANGED <<kind, architecture, training, model, returned>>

\* setTrainability that only switches the flag.
SetTrainabilityKeepsSequence(g, isTrainable) ==
  MemorizeOperationSequence(g, isTrainable)

\* setTrainability that forgets the sequence only when switching off.
SetTrainabilityForgetsWhenOff(g, isTrainable) ==
  IF isTrainable THEN MemorizeOperationSequence(g, TRUE)
  ELSE MemorizeOperationSequence(ForgetCurrentSequence(g), FALSE)

\* FNNModel.setTrainability(isTrainable) on the engine view.
SetTrainabilityOn(g, isTrainable) ==
  MemorizeOperationSequence(ForgetCurrentSequence(g), isTrainable)

\* FNNModel.setTrainability(isTrainable).
SetTrainability(isTrainable) ==
  LET g1 == SetTrainabilityOn(G, isTrainable)
  IN /\ kind = "DNN"
     /\ graph' = GraphOf(g1)
     /\ temps' = g1.temps
     /\ previousOutput' = IF g1.stack = <<>> THEN Detach(G, previousOutput)
                          ELSE previousOutput
     /\ noForwardSince' = TRUE
     /\ last' = Call("setTrainability", "ok", isTrainable)
     /\ afterLoss' = "no"
     /\ UNCHANGED <<kind, architecture, training, model, returned>>

\* clipLoss without its lower bound.
ClipLossUpperOnly(loss, lossClamp) ==
  IF loss > lossClamp THEN lossClamp ELSE loss

\* clipLoss.
ClipLoss(loss, lossClamp) ==
  IF loss > lossClamp THEN lossClamp
  ELSE IF loss < -lossClamp THEN -lossClamp
  ELSE loss

\* propagateLossIntoDecoderLayer: the gradient of previousOutput after it.
PropagateLossIntoDecoderLayer(out, expected, arch, tr) ==
  [out EXCEPT !.dw = [i \in 1..Len(out.dw) |->
     IF i <= arch.outputSize
     THEN IF Abs(out.w[i] - expected[i]) <= tr.loss
          THEN out.dw[i]
          ELSE ClipLoss(out.w[i] - expected[i], tr.lossClamp)
     ELSE out.dw[i]]]

\* updateHiddenLayer and updateDecoderLayer of FNNModel.
FNNUpdateWeights(m, arch, alphaArg, tr) ==
  LET alpha == IF alphaArg # 0 THEN alphaArg ELSE tr.alpha
  IN [hidden |-> [Wh |-> [i \in 1..Len(m.hidden.Wh) |->
                            IF i <= Len(arch.hiddenUnits)
                            THEN MatUpdate(m.hidden.Wh[i], alpha) ELSE m.hidden.Wh[i]],
                  bh |-> [i \in 1..Len(m.hidden.bh) |->
                            IF i <= Len(arch.hiddenUnits)
                            THEN MatUpdate(m.hidden.bh[i], alpha) ELSE m.hidden.bh[i]]],
      decoder |-> [Wh |-> MatUpdate(m.decoder.Wh, alpha),
                   b |-> MatUpdate(m.decoder.b, alpha)]]

\* Every value of every parameter Mat.
ParamMats(m) ==
  {m.decoder.Wh, m.decoder.b}
    \cup {m.hidden[f][i] : f \in DOMAIN m.hidden, i \in 1..Len(m.hidden.Wh)}

InRange(m) == \A p \in ParamMats(m) : \A i \in 1..Len(p.w) : Abs(p.w[i]) <= MaxVal

\* previousOutput written back after the injection: [g, p].
InjectLoss(g, p, injected) ==
  [g |-> IF p.at > 0 THEN [g EXCEPT !.temps[p.at] = injected] ELSE g,
   p |-> IF p.at > 0 THEN p ELSE Detached(injected)]

\* updateWeights on the engine view.
UpdateWeights(g, arch, alpha, tr) ==
  [g EXCEPT !.model = FNNUpdateWeights(@, arch, alpha, tr)]

\* resetGraph: [g, p], previousOutput outliving the forgotten closures.
ResetGraph(g, p) == [g |-> ForgetCurrentSequence(g), p |-> Detach(g, p)]

\* backwardGraph, updateWeights and resetGraph on s = [g, p].
ReplayUpdateReset(s, arch, alpha, tr) ==
  ResetGraph(UpdateWeights(GraphBackward(s.g), arch, alpha, tr), s.p)

\* The steps of backward after its two assertions, on the engine view g with
\* previousOutput p: the result [g, p] after resetGraph.
BackwardSteps(g, p, expected, alpha, arch, tr) ==
  ReplayUpdateReset(
    InjectLoss(g, p, PropagateLossIntoDecoderLayer(PrevMat(g, p), expected, arch, tr)),
    arch, alpha, tr)

\* backward without its first assertion.
BackwardErrorNoTrainabilityCheck(g, p) ==
  IF ~p.def THEN "Please execute forward() before calling backward()"
  ELSE "ok"

\* backward without its second assertion.
BackwardErrorNoForwardCheck(g, p) ==
  IF ~g.rec THEN "Trainability is not enabled."
  ELSE "ok"

\* The error backward's assertions throw ("ok" when both hold).
BackwardError(g, p) ==
  IF ~g.rec THEN "Trainability is not enabled."
  ELSE IF ~p.def THEN "Please execute forward() before calling backward()"
  ELSE "ok"

\* The instance after the steps of backward ended in r = [g, p].
BackwardReturn(r) ==
  /\ InRange(r.g.model)
  /\ model' = r.g.model
  /\ graph' = GraphOf(r.g)
  /\ temps' = r.g.temps
  /\ previousOutput' = r.p

\* FNNModel.backward(expectedOutput, alpha).
Backward(expected, alpha) ==
  LET err == BackwardError(G, previousOutput)
  IN /\ kind = "DNN"
     /\ last' = Call("backward", err, expected)
     /\ IF err = "ok"
        THEN BackwardReturn(BackwardSteps(G, previousOutput, expected, alpha,
                                          architecture, training))
        ELSE UNCHANGED <<model, graph, temps, previousOutput>>
     /\ afterLoss' = IF afterLoss = "discarded" THEN "backward" ELSE "no"
     /\ UNCHANGED <<kind, architecture, training, returned, noForwardSince>>

\* getSquaredLossFor that leaves recording off instead of restoring it.
RestoreTrainabilityOff(g, trainability) ==
  /\ graph' = GraphOf(SetTrainabilityOn(g, FALSE))
  /\ temps' = SetTrainabilityOn(g, FALSE).temps

\* The view after setTrainability(trainability) on the view a pass left.
RestoreTrainability(g, trainability) ==
  /\ graph' = GraphOf(SetTrainabilityOn(g, trainability))
  /\ temps' = SetTrainabilityOn(g, trainability).temps

\* A loss evaluation that leaves the retained last output as it was.
LossPassKeepsOutput(g1, g2, trainability) ==
  /\ RestoreTrainability([g2 EXCEPT !.temps = HeapAfter(g1, g2)], trainability)
  /\ previousOutput' = Detach(G, previousOutput)

\* The instance after the forward pass of a loss evaluation on g1 that ended
\* in g2, and the setTrainability(trainability) after it.
LossPassReturn(g1, g2, trainability) ==
  /\ RestoreTrainability([g2 EXCEPT !.temps = HeapAfter(g1, g2)], trainability)
  /\ previousOutput' = RetainOutput(g2)

\* FNNModel.getSquaredLossFor(input, expectedOutput): a forward pass between
\* setTrainability(false) and setTrainability(trainability).  When the pass
\* throws, the second setTrainability is not reached.
GetSquaredLossFor(input, expected) ==
  LET trainability == graph.rec
      g1 == SetTrainabilityOn(G, FALSE)
      p1 == Detach(G, previousOutput)
  IN /\ kind = "DNN"
     /\ IF LayerMissing(g1, architecture)
        THEN /\ graph' = GraphOf(g1)
             /\ temps' = g1.temps
             /\ previousOutput' = p1
             /\ noForwardSince' = TRUE
             /\ last' = Call("getSquaredLossFor", "TypeError", input)
             /\ afterLoss' = "no"
        ELSE /\ LossPassReturn(g1, FNNForwardPass(g1, architecture, input),
                               trainability)
             /\ noForwardSince' = TRUE
             /\ last' = Call("getSquaredLossFor", "ok", input)
             /\ afterLoss' = IF trainability /\ last.op = "forward" /\ last.err = "ok"
                             THEN "discarded" ELSE "no"
     /\ UNCHANGED <<kind, architecture, training, model, returned>>

\* ------------------------------------------------------ RNNModel / RNN
\* The argument of new RNN(opt): `keys` names the own properties of opt, and
\* the fields hold what these properties are.  A pre-trained JSON has hidden
\* and decoder; hidden.arrays tells whether hidden.Wh, Wx, bh are per-layer
\* arrays of MatJson or plain objects.  A NetOpts has architecture.
RNNOpt(keys, arch, arrays, layers, outputSize) ==
  [keys |-> keys,
   architecture |-> arch,
   hidden |-> [keys |-> {"Wh", "Wx", "bh"}, arrays |-> arrays,
               Wx |-> [i \in 1..layers |-> MatJson(1, 1, 1)],
               Wh |-> [i \in 1..layers |-> MatJson(1, 1, -1)],
               bh |-> [i \in 1..layers |-> MatJson(1, 1, 0)]],
   decoder |-> [keys |-> {"Wh", "b"},
                Wh |-> MatJson(outputSize, 1, 1), b |-> MatJson(outputSize, 1, 0)]]

ArchOpt(has, inputSize, hiddenUnits, outputSize) ==
  [has |-> has, inputSize |-> inputSize, hiddenUnits |-> hiddenUnits,
   outputSize |-> outputSize]

RNNOpts ==
  { RNNOpt({"architecture"}, ArchOpt(AllArch, 1, <<1>>, 2), FALSE, 0, 0),
    RNNOpt({"architecture"}, ArchOpt(AllArch, 1, <<1, 1>>, 1), FALSE, 0, 0),
    RNNOpt({"architecture"}, ArchOpt({"inputSize"}, 1, <<>>, 0), FALSE, 0, 0),
    RNNOpt({}, ArchOpt({}, 0, <<>>, 0), FALSE, 0, 0),
    RNNOpt({"hidden", "decoder"}, ArchOpt({}, 0, <<>>, 0), TRUE, 1, 2),
    RNNOpt({"hidden", "decoder"}, ArchOpt({}, 0, <<>>, 0), TRUE, 2, 1),
    RNNOpt({"hidden", "decoder"}, ArchOpt({}, 0, <<>>, 0), FALSE, 1, 1) }

\* RNN.isFromJSON.
RNNIsFromJSON(opt) ==
  /\ {"hidden", "decoder"} \subseteq opt.keys
  /\ {"Wh", "Wx", "bh"} \subseteq opt.hidden.keys
  /\ {"Wh", "b"} \subseteq opt.decoder.keys

\* RNNModel.isFreshInstanceCall.
IsFreshInstanceCall(opt) ==
  /\ "architecture" \in opt.keys
  /\ {"inputSize", "hiddenUnits", "outputSize"} \subseteq opt.architecture.has

\* RNN.initializeHiddenLayerFromJSON and RNNModel.initializeModelFromJSONObject:
\* the error they throw.  The three assertions demand that the hidden entries
\* are no arrays; past them the first write goes to this.model, which only
\* initializeModelAsFreshInstance sets, and throws a TypeError.
RNNFromJSONError(opt) ==
  IF opt.hidden.arrays THEN "Wrong JSON Format to recreate Hidden Layer."
  ELSE "TypeError"

\* The error new RNN(opt) throws ("ok" when it throws none).
RNNConstructError(opt) ==
  IF RNNIsFromJSON(opt) THEN RNNFromJSONError(opt)
  ELSE IF IsFreshInstanceCall(opt) THEN "ok"
  ELSE "Improper input for DNN."

\* RNN.initializeHiddenLayer: per layer Wx and Wh are drawn, bh is zero.
RNNInitializeHiddenLayer(arch, r) ==
  LET per == [i \in 1..Len(arch.hiddenUnits) |->
                arch.hiddenUnits[i] * GetPrecedingLayerSize(arch, i)
                  + arch.hiddenUnits[i] * arch.hiddenUnits[i]]
  IN [Wx |-> [i \in 1..Len(arch.hiddenUnits) |->
                RandMat(arch.hiddenUnits[i], GetPrecedingLayerSize(arch, i), r,
                        Offset(per, i))],
      Wh |-> [i \in 1..Len(arch.hiddenUnits) |->
                RandMat(arch.hiddenUnits[i], arch.hiddenUnits[i], r,
                        Offset(per, i)
                          + arch.hiddenUnits[i] * GetPrecedingLayerSize(arch, i))],
      bh |-> [i \in 1..Len(arch.hiddenUnits) |-> NewMat(arch.hiddenUnits[i], 1)]]

\* new RNN(opt): the RNNModel constructor.
NewRNN(opt, r) ==
  LET err == RNNConstructError(opt)
      arch == [inputSize |-> opt.architecture.inputSize,
               hiddenUnits |-> opt.architecture.hiddenUnits,
               outputSize |-> opt.architecture.outputSize]
      hidden == RNNInitializeHiddenLayer(arch, r)
  IN /\ kind = "none"
     /\ last' = Call("new RNN", err, opt)
     /\ IF err = "ok"
        THEN /\ kind' = "RNN"
             /\ architecture' = arch
             /\ model' = [hidden |-> hidden,
                          decoder |-> InitializeDecoder(arch, r,
                             SumTo([i \in 1..Len(arch.hiddenUnits) |->
                                      Len(hidden.Wx[i].w) + Len(hidden.Wh[i].w)],
                                   Len(arch.hiddenUnits)))]
             /\ graph' = GraphOf(MemorizeOperationSequence(
                                    View(NoModel, <<>>, NewGraph), TRUE))
             /\ UNCHANGED <<training, temps, previousOutput, returned, noForwardSince,
                           afterLoss>>
        ELSE UNCHANGED <<kind, architecture, training, model, graph, temps,
                         previousOutput, returned, noForwardSince, afterLoss>>

\* The previous-state argument of RNN.forward: `given` tells whether an
\* object was passed, hasField whether it has hiddenActivationState, hidden
\* the heap places of the Mats in that field.
PrevArg(given, hasField, hidden) ==
  [given |-> given, hasField |-> hasField, hidden |-> hidden]

\* RNN.givenPreviousActivationState.
GivenPreviousActivationState(prev) == prev.given /\ prev.hasField

\* New zero column vectors, one per hidden layer, put on the heap.
WithZeroStates(g, arch) ==
  [g EXCEPT !.temps = @ \o [i \in 1..Len(arch.hiddenUnits) |->
                              NewMat(arch.hiddenUnits[i], 1)]]

\* getPreviousHiddenActivationsFrom whose default vectors are not zero.
GetPreviousHiddenActivationsFromOnes(g, arch, prev) ==
  IF prev.given /\ prev.hasField
  THEN [g |-> g, hidden |-> prev.hidden]
  ELSE [g |-> [g EXCEPT !.temps = @ \o [i \in 1..Len(arch.hiddenUnits) |->
                  MatOf(arch.hiddenUnits[i], 1,
                        [k \in 1..arch.hiddenUnits[i] |-> 1])]],
        hidden |-> [i \in 1..Len(arch.hiddenUnits) |-> Len(g.temps) + i]]

\* RNN.getPreviousHiddenActivationsFrom: [g, hidden], the heap places of the
\* previous hidden activations, on the heap g they are in.
GetPreviousHiddenActivationsFrom(g, arch, prev) ==
  IF GivenPreviousActivationState(prev)
  THEN [g |-> g, hidden |-> prev.hidden]
  ELSE [g |-> WithZeroStates(g, arch),
        hidden |-> [i \in 1..Len(arch.hiddenUnits) |-> Len(g.temps) + i]]

\* One layer of RNN.computeHiddenActivations:
\* relu((Wx[i] * inputVector + Wh[i] * previousActivations) + bh[i]).
RNNLayer(g, i, inputVector, previousActivations) ==
  OnLast(OnLast(AddLastTwo(GraphOp(GraphOp(g, "mul", Ref("Wx", i), inputVector),
                                   "mul", Ref("Wh", i), previousActivations)),
                "add", Ref("bh", i)),
         "relu", NoRef)

\* RNN.computeHiddenActivations, layers i..: [g, hidden] with the places of
\* the activations computed so far.
RECURSIVE RNNHiddenActivations(_, _, _, _, _, _)
\* hiddenActivations.push(activation), and the next layer on that activation.
RNNPushActivation(g, arch, i, previous, acc) ==
  RNNHiddenActivations(g, arch, i + 1, LastOut(g), previous, Append(acc, Len(g.temps)))

RNNHiddenActivations(g, arch, i, inputVector, previous, acc) ==
  IF i > Len(arch.hiddenUnits) THEN [g |-> g, hidden |-> acc]
  ELSE RNNPushActivation(RNNLayer(g, i, inputVector, Ref("T", previous[i])),
                         arch, i, previous, acc)

\* The InnerState { hiddenActivationState, output } forward returns: the
\* places of its Mats on the heap of g.
InnerStateOf(g, hidden) == [g |-> g, hidden |-> hidden, output |-> Len(g.temps)]

\* RNNModel.computeOutput on the hidden activations h = [g, hidden].
RNNComputeOutput(h) ==
  InnerStateOf(ComputeOutput(h.g, Ref("T", h.hidden[Len(h.hidden)])), h.hidden)

\* computeHiddenActivations on the previous activations p = [g, hidden].
RNNComputeHiddenActivations(p, arch, inputAt) ==
  RNNHiddenActivations(p.g, arch, 1, Ref("T", inputAt), p.hidden, <<>>)

\* RNN.forward(input, previousActivationState) on the engine view g, the
\* input Mat and the Mats of the argument being on its heap:
\* [g, hidden, output], the InnerState returned and the view after it.
RNNForwardPass(g, arch, inputAt, prev) ==
  RNNComputeOutput(
    RNNComputeHiddenActivations(GetPreviousHiddenActivationsFrom(g, arch, prev),
                                arch, inputAt))

\* The ways the caller passes the previous state: none, an object without
\* hiddenActivationState, new zero vectors, the state the last call returned.
PrevKinds == {"omitted", "noField", "zeros", "carry"}

\* The heap with the caller's input Mat, and (for "zeros") the caller's zero
\* vectors, put on it.
WithArguments(g, arch, input, prevKind) ==
  LET g0 == [g EXCEPT !.temps = Append(@, MatOf(arch.inputSize, 1, input))]
  IN IF prevKind = "zeros" THEN WithZeroStates(g0, arch) ELSE g0

ArgumentFor(g, arch, prevKind, held) ==
  IF prevKind = "omitted" THEN PrevArg(FALSE, FALSE, <<>>)
  ELSE IF prevKind = "noField" THEN PrevArg(TRUE, FALSE, <<>>)
  ELSE IF prevKind = "zeros"
       THEN PrevArg(TRUE, TRUE, [i \in 1..Len(arch.hiddenUnits) |-> Len(g.temps) + 1 + i])
  ELSE PrevArg(TRUE, TRUE, held.hidden)

\* What forward(input, previous state of kind prevKind) returns in the
\* current state, and the engine view after it.
RNNForwardResult(input, prevKind) ==
  RNNForwardPass(WithArguments(G, architecture, input, prevKind), architecture,
                 Len(temps) + 1, ArgumentFor(G, architecture, prevKind, returned))

\* The instance and the caller's InnerState after forward returned res.
RNNReturn(res) ==
  /\ graph' = GraphOf(res.g)
  /\ temps' = res.g.temps
  /\ returned' = [def |-> TRUE, hidden |-> res.hidden, output |-> res.output]

\* RNN.forward(input, previousActivationState).
RNNForward(input, prevKind) ==
  /\ kind = "RNN"
  /\ PassesOnTape < MaxPasses
  /\ prevKind = "carry" => returned.def
  /\ RNNReturn(RNNForwardResult(input, prevKind))
  /\ last' = Call("RNN.forward", "ok", [input |-> input, prev |-> prevKind])
  /\ UNCHANGED <<kind, architecture, training, model, previousOutput, noForwardSince,
                 afterLoss>>

\* RNN.updateHiddenUnits and RNN.updateDecoder.
RNNUpdateWeights(m, arch, alpha) ==
  [hidden |-> [f \in {"Wx", "Wh", "bh"} |->
                 [i \in 1..Len(m.hidden[f]) |->
                    IF i <= Len(arch.hiddenUnits)
                    THEN MatUpdate(m.hidden[f][i], alpha) ELSE m.hidden[f][i]]],
   decoder |-> [Wh |-> MatUpdate(m.decoder.Wh, alpha),
                b |-> MatUpdate(m.decoder.b, alpha)]]

\* RNNModel.update(alpha).
RNNUpdate(alpha) ==
  /\ kind = "RNN"
  /\ model' = RNNUpdateWeights(model, architecture, alpha)
  /\ last' = Call("RNN.update", "ok", alpha)
  /\ UNCHANGED <<kind, architecture, training, graph, temps, previousOutput,
                 returned, noForwardSince, afterLoss>>

\* ------------------------------------------------------- the specification
Init ==
  /\ kind = "none"
  /\ architecture = [inputSize |-> 0, hiddenUnits |-> <<>>, outputSize |-> 0]
  /\ training = [alpha |-> 0, lossClamp |-> 0, loss |-> 0]
  /\ model = NoModel
  /\ graph = NewGraph
  /\ temps = <<>>
  /\ previousOutput = Undefined
  /\ returned = NoState
  /\ noForwardSince = FALSE
  /\ afterLoss = "no"
  /\ last = Call("none", "ok", 0)

Next ==
  \/ \E opt \in NetOpts, r \in [1..RandLen -> InitWeights] : NewDNN(opt, r)
  \/ \E opt \in NetOpts :
       \E json \in FNNJsons(DetermineArchitectureProperties(opt)) : DNNFromJSON(opt, json)
  \/ \E input \in Inputs : Forward(input)
  \/ \E b \in BOOLEAN : SetTrainability(b)
  \/ \E expected \in Targets(architecture.outputSize), alpha \in Alphas :
       Backward(expected, alpha)
  \/ \E input \in LossInputs, expected \in LossTargets(architecture.outputSize) :
       GetSquaredLossFor(input, expected)
  \/ \E opt \in RNNOpts, r \in [1..RandLen -> InitWeights] : NewRNN(opt, r)
  \/ \E input \in InputMats, prevKind \in PrevKinds : RNNForward(input, prevKind)
  \/ \E alpha \in Alphas \ {0} : RNNUpdate(alpha)

Spec == Init /\ [][Next]_vars


\* ------------------------------------------------------------- the claims
\* The values of every parameter Mat.
ParamValues(m) ==
  [decoder |-> [Wh |-> m.decoder.Wh.w, b |-> m.decoder.b.w],
   hidden |-> [f \in DOMAIN m.hidden |->
                 [i \in 1..Len(m.hidden[f]) |-> m.hidden[f][i].w]]]

\* The Mat the model retains as its last output.
LastOutput == PrevMat(G, previousOutput)

TrainabilityDisabled == "Trainability is not enabled."

PrecedingForwardPassRequired == "Please execute forward() before calling backward()"

\* C1: a backward call made while the graph is not memorizing fails with
\* 'Trainability is not enabled.' and mutates nothing: the parameter Mats
\* (values and gradients), the retained last output, the recording flag and
\* the recorded stack are as before the call.
C1_BackwardNotTrainable ==
  [][(last'.op = "backward" /\ ~graph.rec)
       => /\ last'.err = TrainabilityDisabled
          /\ UNCHANGED <<model, previousOutput, graph, temps>>]_vars

\* A backward call was refused for trainability while a last output with an
\* injected gradient was retained.
C1_Witness ==
  /\ last.op = "backward"
  /\ last.err = TrainabilityDisabled
  /\ previousOutput.def
  /\ \E i \in 1..Len(LastOutput.dw) : LastOutput.dw[i] # 0

\* C2: with the graph memorizing, a backward call made before any forward
\* pass produced a last output fails with 'Please execute forward() before
\* calling backward()' and injects, replays, updates and resets nothing.
C2_BackwardBeforeForward ==
  [][(last'.op = "backward" /\ graph.rec /\ ~previousOutput.def)
       => /\ last'.err = PrecedingForwardPassRequired
          /\ UNCHANGED <<model, previousOutput, graph, temps>>]_vars

\* A backward call was refused for want of a forward pass.
C2_Witness ==
  /\ last.op = "backward"
  /\ last.err = PrecedingForwardPassRequired
  /\ graph.rec
  /\ ~previousOutput.def


\* diff clamped to [-clamp, +clamp].
Clamped(diff, clamp) ==
  IF diff < 0 THEN (IF -diff > clamp THEN -clamp ELSE diff)
  ELSE (IF diff > clamp THEN clamp ELSE diff)

\* C3 as claimed: after any successful backward(expected), for every output
\* component i with diff = output.values[i] - expected[i]: the gradient is 0
\* if |diff| <= lossDeadband, else diff clamped to [-lossClamp, +lossClamp].
C3_AsClaimed ==
  (last.op = "backward" /\ last.err = "ok")
    => \A i \in 1..architecture.outputSize :
         LET diff == LastOutput.w[i] - last.in[i]
         IN LastOutput.dw[i] = IF Abs(diff) <= training.loss THEN 0
                               ELSE Clamped(diff, training.lossClamp)

\* C3 as amended: a successful backward(expected) leaves the output's values
\* alone and, for every output component i, leaves the gradient as it was
\* before the call if |diff| <= lossDeadband (which is 0 for an output no
\* earlier backward injected into), and else overwrites it with diff clamped
\* to [-lossClamp, +lossClamp].
C3_ErrorInjection ==
  [][(last'.op = "backward" /\ last'.err = "ok")
       => /\ LastOutput'.w = LastOutput.w
          /\ \A i \in 1..architecture.outputSize :
               LET diff == LastOutput.w[i] - last'.in[i]
               IN LastOutput'.dw[i] = IF Abs(diff) <= training.loss
                                      THEN LastOutput.dw[i]
                                      ELSE Clamped(diff, training.lossClamp)]_vars

\* A successful backward left one component inside the deadband at zero and
\* clamped another one.
C3_Witness ==
  /\ last.op = "backward"
  /\ last.err = "ok"
  /\ \E i, j \in 1..architecture.outputSize :
       /\ Abs(LastOutput.w[i] - last.in[i]) <= training.loss
       /\ LastOutput.dw[i] = 0
       /\ Abs(LastOutput.w[j] - last.in[j]) > training.lossClamp
       /\ Abs(LastOutput.dw[j]) = training.lossClamp

\* C4 as claimed: whenever the weight update of either family returns
\* (FNNModel.backward, RNNModel.update), the model's graph has an empty
\* recorded stack.
C4_TapeEmptyAfterUpdate ==
  ((last.op = "backward" /\ last.err = "ok") \/ last.op = "RNN.update")
    => graph.stack = <<>>

\* C5 as claimed: the recorded stack is empty whenever a forward pass begins.
C5_TapeEmptyBeforeForward ==
  [][(last'.op \in {"forward", "RNN.forward"} /\ last'.err = "ok")
       => graph.stack = <<>>]_vars

\* C6 as claimed: setTrainability(true) only sets the recording flag and
\* leaves the closures already recorded untouched.
C6_AsClaimed ==
  [][(last'.op = "setTrainability" /\ last'.in = TRUE)
       => /\ graph'.rec
          /\ graph'.stack = graph.stack
          /\ model' = model]_vars

\* C6 as amended: setTrainability(true) sets the recording flag and discards
\* the closures already recorded, as switching off does; the parameter Mats
\* and the retained last output are as before.
C6_SetTrainabilityOn ==
  [][(last'.op = "setTrainability" /\ last'.in = TRUE)
       => /\ graph'.rec
          /\ graph'.stack = <<>>
          /\ model' = model
          /\ previousOutput'.def = previousOutput.def
          /\ LastOutput' = LastOutput]_vars

\* setTrainability(true) has run on a model that retains a last output.
C6_Witness ==
  /\ last.op = "setTrainability"
  /\ last.in = TRUE
  /\ previousOutput.def
  /\ graph.rec
  /\ graph.stack = <<>>

\* C7: after setTrainability(b), a backward call made before any new forward
\* pass either fails or leaves every parameter Mat's values unchanged.
C7_NoBackpropAfterSetTrainability ==
  [][(noForwardSince /\ last'.op = "backward")
       => (last'.err # "ok" \/ ParamValues(model') = ParamValues(model))]_vars

\* A backward call after setTrainability, with no forward pass between,
\* succeeded and injected an error.
C7_Witness ==
  /\ noForwardSince
  /\ last.op = "backward"
  /\ last.err = "ok"
  /\ \E i \in 1..Len(LastOutput.dw) : LastOutput.dw[i] # 0


\* The declared number of hidden layers differs from the JSON's, or the JSON
\* lacks a field.
Malformed(in) ==
  \/ Len(in.json.hw) # Len(DetermineArchitectureProperties(in.opt).hiddenUnits)
  \/ in.json.has # AllFields

\* C8 as claimed: DNN.fromJSON with a JSON whose number of hidden layers
\* differs from architecture.hiddenUnits.length, or that lacks a field, fails
\* with a MalformedModelError instead of yielding a model.
C8_MalformedJSONRejected ==
  (last.op = "DNN.fromJSON" /\ Malformed(last.in))
    => (last.err = "MalformedModelError" /\ kind = "none")

\* C9 as claimed: new RNN(json) with a JSON whose hidden entries are
\* per-layer arrays succeeds and yields the JSON's matrices.
C9_RNNFromJSON ==
  (last.op = "new RNN" /\ RNNIsFromJSON(last.in) /\ last.in.hidden.arrays)
    => /\ last.err = "ok"
       /\ kind = "RNN"
       /\ \A i \in 1..Len(last.in.hidden.Wh) :
            /\ model.hidden.Wx[i] = MatFromJSON(last.in.hidden.Wx[i])
            /\ model.hidden.Wh[i] = MatFromJSON(last.in.hidden.Wh[i])
            /\ model.hidden.bh[i] = MatFromJSON(last.in.hidden.bh[i])
       /\ model.decoder.Wh = MatFromJSON(last.in.decoder.Wh)
       /\ model.decoder.b = MatFromJSON(last.in.decoder.b)

\* The output and the hidden activations a forward pass returns.
ReturnedValues(res) ==
  [output |-> res.g.temps[res.output].w,
   hidden |-> [i \in 1..Len(res.hidden) |-> res.g.temps[res.hidden[i]].w]]

\* C10: for every input and parameter setting, RNN.forward(input) returns
\* the same output and hidden activations as RNN.forward(input, s) with s
\* holding a zero column vector of size hiddenUnits[i] per hidden layer, and
\* as RNN.forward(input, s) with s lacking hiddenActivationState.
C10_OmittedStateIsZeroState ==
  kind = "RNN"
    => \A input \in InputMats :
         /\ ReturnedValues(RNNForwardResult(input, "omitted"))
              = ReturnedValues(RNNForwardResult(input, "zeros"))
         /\ ReturnedValues(RNNForwardResult(input, "noField"))
              = ReturnedValues(RNNForwardResult(input, "zeros"))

\* forward was called without a previous state, on recurrent weights that
\* are not zero, and returned a hidden activation that is not zero.
C10_Witness ==
  /\ kind = "RNN"
  /\ last.op = "RNN.forward"
  /\ last.in.prev = "omitted"
  /\ \E i \in 1..Len(returned.hidden) : temps[returned.hidden[i]].w # Zeros(Len(temps[returned.hidden[i]].w))
  /\ \A i \in 1..Len(model.hidden.Wh) : model.hidden.Wh[i].w # Zeros(Len(model.hidden.Wh[i].w))

\* C11: whenever getSquaredLossFor returns, the recording flag equals its
\* value at the time of the call and every parameter Mat's values and
\* gradient are as before the call.
C11_LossEvaluationKeepsTrainingState ==
  [][(last'.op = "getSquaredLossFor" /\ last'.err = "ok")
       => /\ graph'.rec = graph.rec
          /\ model' = model]_vars

\* A loss evaluation returned on a model that was recording and whose
\* decoder bias an earlier backward had updated away from zero.
C11_Witness ==
  /\ last.op = "getSquaredLossFor"
  /\ last.err = "ok"
  /\ graph.rec
  /\ previousOutput.def
  /\ \E i \in 1..Len(model.decoder.b.w) : model.decoder.b.w[i] # 0

\* The output Mat of a pass over last.in made with recording off, as the
\* forward pass inside getSquaredLossFor computes it.
PassOutput(g) == Deref(g, LastOut(g))

EvaluationOutput ==
  PassOutput(FNNForwardPass(SetTrainabilityOn(G, FALSE), architecture, last.in))

\* C12: after forward(x) with recording on followed by getSquaredLossFor(x', t')
\* the stack of the graph is empty, recording is on again and the retained
\* last output is the detached output of the evaluation pass over x'; a
\* backward issued next returns without error and leaves the values of every
\* parameter Mat as they were.
C12_LossEvaluationDiscardsPendingPass ==
  [][afterLoss = "discarded"
       => /\ graph.stack = <<>>
          /\ graph.rec
          /\ previousOutput.def
          /\ previousOutput.at = 0
          /\ previousOutput.mat.w = EvaluationOutput.w
          /\ last'.op = "backward"
               => /\ last'.err = "ok"
                  /\ ParamValues(model') = ParamValues(model)]_vars

\* A backward returned right after a loss evaluation that followed a
\* recorded forward pass, and the loss it injected into the retained output
\* is non-zero.
C12_Witness ==
  /\ afterLoss = "backward"
  /\ last.op = "backward" /\ last.err = "ok"
  /\ \E i \in 1..Len(LastOutput.dw) : LastOutput.dw[i] # 0

====
